---- MODULE Spec2Model ----
(***************************************************************************)
(* Model of onboarding_dir/garbage.py (class Apple, add_apples and the     *)
(* module's top-level statements) and onboarding_dir/onboarding.py         *)
(* (print_panel_chat_message).                                             *)
(*                                                                         *)
(* Python objects live in a heap: a sequence of records, an object's       *)
(* identity being its index.  Every function of the source is an operator  *)
(* from the heap (or the output stream) before the call to the heap (or    *)
(* stream) after it together with the returned value, so that a function   *)
(* that mutated an argument or returned an existing object would show.     *)
(* Strings are TLA+ strings; an f-string is the concatenation of its       *)
(* literal parts and the formatted fields.                                 *)
(***************************************************************************)
EXTENDS Integers, Sequences, FiniteSets, TLC

VARIABLES
    heap,      \* the Apple objects created so far, by identity
    globals,   \* garbage.py's module-level names: a reference, or 0 if unbound
    pc,        \* the next top-level statement of garbage.py
    stdout,    \* the lines written to standard output, per script run
    composed,  \* the references add_apples has returned
    last       \* the latest call: its function, arguments and returned value

vars == <<heap, globals, pc, stdout, composed, last>>

\* ------------------------------------------------------------------ bounds

\* the most Apple objects in the heap (the script itself creates four)
MaxHeap == 6
\* the most calls of print_panel_chat_message
MaxPrints == 2

\* keyword arguments callers pass to Apple(...)
ColorArgs == {"", "a-b"}
SizeArgs == {"Medium", "medium ", "small"}

KwArgs ==
    {<<>>}
    \cup {[color |-> c] : c \in ColorArgs}
    \cup {[size |-> s] : s \in SizeArgs}
    \cup {[color |-> c, size |-> s] : c \in ColorArgs, s \in SizeArgs}

\* --------------------------------------------------------------- garbage.py

\* class Apple: __init__(self, color="red", size="medium")
Apple_init_swapped(h, kw) ==
    LET self == [color |-> IF "size" \in DOMAIN kw THEN kw.size ELSE "red",
                 size |-> IF "color" \in DOMAIN kw THEN kw.color ELSE "medium"]
    IN [heap |-> Append(h, self), ret |-> Len(h) + 1]

Apple(h, kw) ==
    LET self == [color |-> IF "color" \in DOMAIN kw THEN kw.color ELSE "red",
                 size |-> IF "size" \in DOMAIN kw THEN kw.size ELSE "medium"]
    IN [heap |-> Append(h, self), ret |-> Len(h) + 1]

\* Apple.describe: f"This is a {self.size} {self.color} apple."
describe_color_first(h, self) ==
    [heap |-> h,
     ret |-> "This is a " \o h[self].color \o " " \o h[self].size \o " apple."]

describe(h, self) ==
    [heap |-> h,
     ret |-> "This is a " \o h[self].size \o " " \o h[self].color \o " apple."]

\* add_apples(apple1, apple2), and ways it could have been written wrong
add_apples_reversed(h, apple1, apple2) ==
    LET new_color == h[apple2].color \o "-" \o h[apple1].color
        new_size == IF h[apple1].size = "medium" /\ h[apple2].size = "medium"
                    THEN "large" ELSE "extra large"
    IN Apple(h, [color |-> new_color, size |-> new_size])

add_apples_or(h, apple1, apple2) ==
    LET new_color == h[apple1].color \o "-" \o h[apple2].color
        new_size == IF h[apple1].size = "medium" \/ h[apple2].size = "medium"
                    THEN "large" ELSE "extra large"
    IN Apple(h, [color |-> new_color, size |-> new_size])

add_apples_keep_size(h, apple1, apple2) ==
    LET new_color == h[apple1].color \o "-" \o h[apple2].color
        new_size == IF h[apple1].size = h[apple2].size
                    THEN h[apple1].size ELSE "extra large"
    IN Apple(h, [color |-> new_color, size |-> new_size])

add_apples_rejecting(h, apple1, apple2) ==
    LET new_color == h[apple1].color \o "-" \o h[apple2].color
        new_size == IF h[apple1].size = "medium" /\ h[apple2].size = "medium"
                    THEN "large" ELSE "extra large"
    IN IF h[apple1].color = "" \/ h[apple2].color = ""
       THEN [heap |-> h, ret |-> 0, raised |-> "ValueError"]
       ELSE Apple(h, [color |-> new_color, size |-> new_size])

add_apples_inplace(h, apple1, apple2) ==
    LET new_color == h[apple1].color \o "-" \o h[apple2].color
        new_size == IF h[apple1].size = "medium" /\ h[apple2].size = "medium"
                    THEN "large" ELSE "extra large"
    IN [heap |-> [h EXCEPT ![apple1] = [color |-> new_color, size |-> new_size]],
        ret |-> apple1]

add_apples(h, apple1, apple2) ==
    LET new_color == h[apple1].color \o "-" \o h[apple2].color
        new_size == IF h[apple1].size = "medium" /\ h[apple2].size = "medium"
                    THEN "large" ELSE "extra large"
    IN Apple(h, [color |-> new_color, size |-> new_size])

\* the built-in print, writing one line to a run's standard output
print(out, script, line) == [out EXCEPT ![script] = Append(@, line)]

\* ------------------------------------------------------------ onboarding.py

print_panel_chat_message_once(out) ==
    IF out.onboarding = <<>>
    THEN print(out, "onboarding", "This was generated using a panel chat")
    ELSE out

print_panel_chat_message(out) ==
    print(out, "onboarding", "This was generated using a panel chat")

\* --------------------------------------------------------------------- Init

Init ==
    /\ heap = <<>>
    /\ globals = [my_apple |-> 0, apple1 |-> 0, apple2 |-> 0, combined_apple |-> 0]
    /\ pc = "l10"
    /\ stdout = [garbage |-> <<>>, onboarding |-> <<>>]
    /\ composed = {}
    /\ last = [op |-> "none"]

\* ------------------------------------------- garbage.py, top-level statements

\* my_apple = Apple()
Line10 ==
    /\ pc = "l10"
    /\ LET r == Apple(heap, <<>>) IN
        /\ heap' = r.heap
        /\ globals' = [globals EXCEPT !.my_apple = r.ret]
        /\ last' = [op |-> "Apple", kw |-> <<>>, ret |-> r.ret]
    /\ pc' = "l11"
    /\ UNCHANGED <<stdout, composed>>

\* print(my_apple.describe())
Line11 ==
    /\ pc = "l11"
    /\ LET r == describe(heap, globals.my_apple) IN
        /\ heap' = r.heap
        /\ stdout' = print(stdout, "garbage", r.ret)
        /\ last' = [op |-> "describe", self |-> globals.my_apple, ret |-> r.ret]
    /\ pc' = "l25"
    /\ UNCHANGED <<globals, composed>>

\* apple1 = Apple(color="red", size="medium")
Line25 ==
    /\ pc = "l25"
    /\ LET kw == [color |-> "red", size |-> "medium"]
           r == Apple(heap, kw) IN
        /\ heap' = r.heap
        /\ globals' = [globals EXCEPT !.apple1 = r.ret]
        /\ last' = [op |-> "Apple", kw |-> kw, ret |-> r.ret]
    /\ pc' = "l26"
    /\ UNCHANGED <<stdout, composed>>

\* apple2 = Apple(color="green", size="medium")
Line26 ==
    /\ pc = "l26"
    /\ LET kw == [color |-> "green", size |-> "medium"]
           r == Apple(heap, kw) IN
        /\ heap' = r.heap
        /\ globals' = [globals EXCEPT !.apple2 = r.ret]
        /\ last' = [op |-> "Apple", kw |-> kw, ret |-> r.ret]
    /\ pc' = "l27"
    /\ UNCHANGED <<stdout, composed>>

\* combined_apple = add_apples(apple1, apple2)
Line27 ==
    /\ pc = "l27"
    /\ LET r == add_apples(heap, globals.apple1, globals.apple2) IN
        /\ heap' = r.heap
        /\ globals' = [globals EXCEPT !.combined_apple = r.ret]
        /\ composed' = composed \cup {r.ret}
        /\ last' = [op |-> "add_apples", a |-> globals.apple1,
                    b |-> globals.apple2, ret |-> r.ret]
    /\ pc' = "l28"
    /\ UNCHANGED stdout

\* print(combined_apple.describe()), and the same statement naming apple1
Line28_apple1 ==
    /\ pc = "l28"
    /\ LET r == describe(heap, globals.apple1) IN
        /\ heap' = r.heap
        /\ stdout' = print(stdout, "garbage", r.ret)
        /\ last' = [op |-> "describe", self |-> globals.apple1, ret |-> r.ret]
    /\ pc' = "done"
    /\ UNCHANGED <<globals, composed>>

Line28 ==
    /\ pc = "l28"
    /\ LET r == describe(heap, globals.combined_apple) IN
        /\ heap' = r.heap
        /\ stdout' = print(stdout, "garbage", r.ret)
        /\ last' = [op |-> "describe", self |-> globals.combined_apple,
                    ret |-> r.ret]
    /\ pc' = "done"
    /\ UNCHANGED <<globals, composed>>

Script == Line10 \/ Line11 \/ Line25 \/ Line26 \/ Line27 \/ Line28

\* ------------------------- calls made once the module's definitions exist

CallApple ==
    /\ pc = "done"
    /\ Len(heap) < MaxHeap
    /\ \E kw \in KwArgs :
        LET r == Apple(heap, kw) IN
            /\ heap' = r.heap
            /\ last' = [op |-> "Apple", kw |-> kw, ret |-> r.ret]
    /\ UNCHANGED <<globals, pc, stdout, composed>>

CallDescribe ==
    /\ pc = "done"
    /\ \E self \in DOMAIN heap :
        LET r == describe(heap, self) IN
            /\ heap' = r.heap
            /\ last' = [op |-> "describe", self |-> self, ret |-> r.ret]
    /\ UNCHANGED <<globals, pc, stdout, composed>>

CallAddApples ==
    /\ pc = "done"
    /\ Len(heap) < MaxHeap
    /\ \E a \in DOMAIN heap, b \in DOMAIN heap :
        LET r == add_apples(heap, a, b) IN
            /\ heap' = r.heap
            /\ composed' = composed \cup {r.ret}
            /\ last' = [op |-> "add_apples", a |-> a, b |-> b, ret |-> r.ret]
    /\ UNCHANGED <<globals, pc, stdout>>

CallPrintPanelChatMessage ==
    /\ Len(stdout.onboarding) < MaxPrints
    /\ stdout' = print_panel_chat_message(stdout)
    /\ last' = [op |-> "print_panel_chat_message"]
    /\ UNCHANGED <<heap, globals, pc, composed>>

Next ==
    \/ Line10
    \/ Line11
    \/ Line25
    \/ Line26
    \/ Line27
    \/ Line28
    \/ CallApple
    \/ CallDescribe
    \/ CallAddApples
    \/ CallPrintPanelChatMessage

Spec == Init /\ [][Next]_vars

\* a script's top-level statements run one after the other to the end
FairSpec == Spec /\ WF_vars(Script)

\* ------------------------------------------------------------------ claims

\* whether string s holds character ch
Contains(s, ch) == \E i \in 1..Len(s) : SubSeq(s, i, i) = ch

\* C1: the record add_apples(A, B) returns has as color A's color, then
\* exactly one hyphen, then B's color, whatever the two sizes are.
C1_ColorIsHyphenJoin ==
    last.op = "add_apples" =>
        LET A == heap[last.a].color
            B == heap[last.b].color
            C == heap[last.ret].color
        IN /\ Len(C) = Len(A) + 1 + Len(B)
           /\ SubSeq(C, 1, Len(A)) = A
           /\ SubSeq(C, Len(A) + 1, Len(A) + 1) = "-"
           /\ SubSeq(C, Len(A) + 2, Len(C)) = B

C1_Witness ==
    /\ last.op = "add_apples"
    /\ heap[last.a] = [color |-> "a-b", size |-> "small"]
    /\ heap[last.b] = [color |-> "green", size |-> "medium"]
    /\ heap[last.ret].color = "a-b-green"

\* C2: the size of add_apples(A, B) is "large" exactly when both sizes are
\* exactly "medium", and "extra large" in every other case.
C2_SizeRule ==
    last.op = "add_apples" =>
        LET A == heap[last.a].size
            B == heap[last.b].size
            C == heap[last.ret].size
        IN /\ C \in {"large", "extra large"}
           /\ C = "large" <=> (A = "medium" /\ B = "medium")

C2_Witness ==
    /\ last.op = "add_apples"
    /\ heap[last.a].size = "medium "
    /\ heap[last.b].size = "medium"
    /\ heap[last.ret].size = "extra large"

\* C4: Apple() has color "red" and size "medium"; an attribute that is not
\* given keeps its default and one that is given is stored as given.
C4_Defaults ==
    last.op = "Apple" =>
        LET R == heap[last.ret]
            kw == last.kw
        IN /\ R.color = IF "color" \in DOMAIN kw THEN kw.color ELSE "red"
           /\ R.size = IF "size" \in DOMAIN kw THEN kw.size ELSE "medium"
           /\ kw = <<>> => R = [color |-> "red", size |-> "medium"]

C4_Witness ==
    /\ last.op = "Apple"
    /\ last.kw = [size |-> "small"]
    /\ heap[last.ret] = [color |-> "red", size |-> "small"]

\* C5: describe returns "This is a <size> <color> apple.", size before
\* color, and leaves every record as it was.
C5_Sentence(s, R) ==
    LET n == Len("This is a ")
        k == n + Len(R.size)
        m == k + 1 + Len(R.color)
    IN /\ Len(s) = m + Len(" apple.")
       /\ SubSeq(s, 1, n) = "This is a "
       /\ SubSeq(s, n + 1, k) = R.size
       /\ SubSeq(s, k + 1, k + 1) = " "
       /\ SubSeq(s, k + 2, m) = R.color
       /\ SubSeq(s, m + 1, Len(s)) = " apple."

C5_Describe ==
    [][last'.op = "describe" =>
        /\ heap' = heap
        /\ C5_Sentence(last'.ret, heap[last'.self])]_vars

C5_Witness ==
    /\ last.op = "describe"
    /\ heap[last.self] = [color |-> "red-green-a-b", size |-> "extra large"]
    /\ last.ret = "This is a extra large red-green-a-b apple."

\* C6: a run of garbage.py writes "This is a medium red apple." and then
\* "This is a large red-green apple.", nothing else, and ends.
C6_Lines ==
    stdout.garbage =
        CASE pc \in {"l10", "l11"} -> <<>>
          [] pc \in {"l25", "l26", "l27", "l28"} ->
                <<"This is a medium red apple.">>
          [] pc = "done" ->
                <<"This is a medium red apple.",
                  "This is a large red-green apple.">>

C6_ScriptOutput == []C6_Lines /\ <>[](pc = "done")

C6_Witness ==
    /\ pc = "done"
    /\ Len(stdout.garbage) = 2
    /\ Len(heap) > 4
    /\ last.op = "describe"

\* C7: add_apples has no error outcome: for every two records, empty and
\* hyphenated colors included, it returns a record.
C7_Returns(r) ==
    /\ DOMAIN r = {"heap", "ret"}
    /\ r.ret \in DOMAIN r.heap
    /\ DOMAIN r.heap[r.ret] = {"color", "size"}
    /\ r.heap[r.ret].color \in STRING
    /\ r.heap[r.ret].size \in STRING

C7_Total ==
    /\ \A a \in DOMAIN heap, b \in DOMAIN heap :
            C7_Returns(add_apples(heap, a, b))
    /\ last.op = "add_apples" => last.ret \in DOMAIN heap

C7_Witness ==
    /\ last.op = "add_apples"
    /\ heap[last.a].color = ""
    /\ Contains(heap[last.b].color, "-")
    /\ last.ret \in composed
    /\ heap[last.ret].color = "-red-green"

\* C8: every call of print_panel_chat_message writes the one line "This
\* was generated using a panel chat" and changes nothing else.
C8_PanelLine ==
    /\ [](\A i \in DOMAIN stdout.onboarding :
            stdout.onboarding[i] = "This was generated using a panel chat")
    /\ [][last'.op = "print_panel_chat_message" =>
            /\ Len(stdout'.onboarding) = Len(stdout.onboarding) + 1
            /\ SubSeq(stdout'.onboarding, 1, Len(stdout.onboarding))
                    = stdout.onboarding
            /\ stdout'.garbage = stdout.garbage
            /\ UNCHANGED <<heap, globals, pc, composed>>]_vars

C8_Witness ==
    /\ last.op = "print_panel_chat_message"
    /\ Len(stdout.onboarding) = 2
    /\ pc = "done"

\* C9: no call changes a record that exists, and add_apples returns a
\* record that did not exist before the call, also for add_apples(A, A).
C9_Frame ==
    [][/\ \A i \in DOMAIN heap : i \in DOMAIN heap' /\ heap'[i] = heap[i]
       /\ last'.op = "add_apples" =>
            /\ last'.ret \notin DOMAIN heap
            /\ last'.ret \in DOMAIN heap'
            /\ last'.ret \notin {last'.a, last'.b}]_vars

C9_Witness ==
    /\ last.op = "add_apples"
    /\ last.a = last.b
    /\ last.ret # last.a
    /\ heap[last.a] = [color |-> "red", size |-> "medium"]
    /\ heap[last.ret] = [color |-> "red-red", size |-> "large"]

\* C10: no record add_apples returned has size "medium", so a composition
\* with a composed argument has size "extra large" and "large" comes only
\* from two records of size "medium" that add_apples did not return.
C10_NeverMedium ==
    /\ \A r \in composed : r \in DOMAIN heap /\ heap[r].size # "medium"
    /\ last.op = "add_apples" =>
        /\ (last.a \in composed \/ last.b \in composed)
                => heap[last.ret].size = "extra large"
        /\ heap[last.ret].size = "large" =>
                /\ last.a \notin composed
                /\ last.b \notin composed
                /\ heap[last.a].size = "medium"
                /\ heap[last.b].size = "medium"

C10_Witness ==
    /\ last.op = "add_apples"
    /\ last.a \notin composed
    /\ heap[last.a].size = "medium"
    /\ last.b \in composed
    /\ \E c \in composed : c # last.b /\ c # last.ret
    /\ heap[last.b].size = "extra large"
    /\ heap[last.ret].size = "extra large"

====
